---------------------------- MODULE Spec2Model ----------------------------
(***************************************************************************)
(* The build orchestration declared in gulpfile.js: the task registry, the *)
(* series/parallel compositions, the four watch rules and the one-shot     *)
(* process that runs a requested task.                                     *)
(***************************************************************************)
EXTENDS Naturals, Sequences, FiniteSets

(***************************************************************************)
(* Bounds of the model.                                                    *)
(***************************************************************************)
\* Change events counted while one run of a rule is in progress.
MaxEventsDuringRun == 2
\* One-shot processes run one after the other on the same ./build.
MaxRuns == 2

(***************************************************************************)
(* The task registry.                                                      *)
(***************************************************************************)
Fn == [op |-> "fn", kids |-> <<>>]
Series(kids) == [op |-> "series", kids |-> kids]
Parallel(kids) == [op |-> "parallel", kids |-> kids]

\* The task functions: a stream pipeline, a promise, or a plain function.
StreamTasks ==
  {"html", "styles", "copy:fonts", "copy:images", "copy:root", "copy:vendor"}
FnTasks == StreamTasks \cup {"clean", "serve", "watch", "build:prod/env"}

task_copy_series ==
  Series(<<"copy:images", "copy:root", "copy:vendor", "copy:fonts">>)
task_copy ==
  Parallel(<<"copy:images", "copy:root", "copy:vendor", "copy:fonts">>)
task_build_parallel == Parallel(<<"styles", "html", "copy">>)
task_build_unordered == Parallel(<<"clean", "build/parallel">>)
task_build == Series(<<"clean", "build/parallel">>)
task_build_prod_late == Series(<<"build", "build:prod/env">>)
task_build_prod == Series(<<"build:prod/env", "build">>)
task_default_parallel == Parallel(<<"serve", "watch">>)
task_default_unordered == Parallel(<<"build", "default/parallel">>)
task_default == Series(<<"build", "default/parallel">>)

\* The callbacks given to gulp.watch, one per rule.
watch_pug == Series(<<"html">>)
watch_js == Series(<<"html">>)
watch_css_cleans == Series(<<"clean", "styles">>)
watch_css == Series(<<"styles">>)
watch_images_parallel == Parallel(<<"copy:images", "html">>)
watch_images == Series(<<"copy:images", "html">>)

Rules == {"watch/pug", "watch/js", "watch/css", "watch/images"}
Composed ==
  {"copy", "build/parallel", "build", "build:prod", "default/parallel",
   "default"}
Nodes == FnTasks \cup Composed \cup Rules

Registry ==
  [n \in Nodes |->
     CASE n = "copy" -> task_copy
       [] n = "build/parallel" -> task_build_parallel
       [] n = "build" -> task_build
       [] n = "build:prod" -> task_build_prod
       [] n = "default/parallel" -> task_default_parallel
       [] n = "default" -> task_default
       [] n = "watch/pug" -> watch_pug
       [] n = "watch/js" -> watch_js
       [] n = "watch/css" -> watch_css
       [] n = "watch/images" -> watch_images
       [] OTHER -> Fn]

\* The tasks a one-shot process is asked to run.
Commands == {"copy", "build", "build:prod", "default", "watch"}

KidSet(n) == {Registry[n].kids[i] : i \in 1..Len(Registry[n].kids)}

RECURSIVE Reach(_)
Reach(n) == {n} \cup UNION {Reach(k) : k \in KidSet(n)}

\* The composition that invoked n in the run of root.
Parents ==
  [root \in Nodes |->
     [n \in Reach(root) \ {root} |->
        CHOOSE p \in Reach(root) : n \in KidSet(p)]]
Parent(root, n) == Parents[root][n]

IndexOf(kids, n) == CHOOSE i \in 1..Len(kids) : kids[i] = n

\* The gulp.task calls in the order of the file.
OrderCopyFirst ==
  <<"html", "styles", "copy", "copy:fonts", "copy:images", "copy:root",
    "copy:vendor", "serve", "watch", "clean", "build", "build:prod",
    "default">>
Order ==
  <<"html", "styles", "copy:fonts", "copy:images", "copy:root",
    "copy:vendor", "copy", "serve", "watch", "clean", "build", "build:prod",
    "default">>
\* The gulp.watch calls in the order of the watch task's body.
RuleOrder == <<"watch/pug", "watch/js", "watch/css", "watch/images">>

\* The functions and compositions that are given no name.
Anonymous == {"build/parallel", "default/parallel", "build:prod/env"}

\* The task names a definition hands to gulp.series and gulp.parallel.
RECURSIVE Refs(_)
Refs(n) ==
  UNION {IF k \in Anonymous THEN Refs(k) ELSE {k} : k \in KidSet(n)}

\* The gulpfile: the named tasks with the names they refer to, and the names
\* the watch task refers to when it runs.
Gulpfile ==
  [tasks |-> [i \in 1..Len(Order) |->
                [name |-> Order[i], refs |-> Refs(Order[i])]],
   rules |-> [r \in Rules |-> Refs(r)]]
TaskNames == {Order[i] : i \in 1..Len(Order)}

(***************************************************************************)
(* The source tree and the globs.                                          *)
(***************************************************************************)
Path(dir, base, ext) == [dir |-> dir, base |-> base, ext |-> ext]
\* deep: the glob has a ** segment below dir; base "*" and ext "*" are wild.
Glob(dir, deep, base, exts) ==
  [dir |-> dir, deep |-> deep, base |-> base, exts |-> exts]

index_pug == Path("", "index", "pug")
en_md == Path("pages", "en", "md")
main_css == Path("styles", "main", "css")
logo_png == Path("images", "logo", "png")
lib_js == Path("vendor", "lib", "js")
stem_woff == Path("fonts", "stem", "woff")
favicon_ico == Path("", "favicon", "ico")
cname == Path("", "CNAME", "")

\* The files the model removes from and adds back to the tree while
\* watching: html's only input and the file of styles' glob.
Removable == {index_pug, main_css}

SourceTree ==
  {index_pug, en_md, main_css, logo_png, lib_js, stem_woff, favicon_ico,
   cname}

GlobMatch(g, p) ==
  /\ IF g.deep THEN g.dir = "" \/ p.dir = g.dir ELSE p.dir = g.dir
  /\ g.base = "*" \/ p.base = g.base
  /\ "*" \in g.exts \/ p.ext \in g.exts

\* The globs of each task's gulp.src.
SrcGlobs(t) ==
  CASE t = "html" -> {Glob("", TRUE, "*", {"pug"})}
    [] t = "styles" -> {Glob("styles", FALSE, "main", {"css"})}
    [] t = "copy:fonts" -> {Glob("fonts", FALSE, "*", {"*"})}
    [] t = "copy:images" -> {Glob("images", TRUE, "*", {"*"})}
    [] t = "copy:root" ->
         {Glob("", FALSE, "*", {"xml", "png", "ico", "json", "svg"}),
          Glob("", FALSE, "CNAME", {""})}
    [] t = "copy:vendor" -> {Glob("vendor", FALSE, "*", {"js", "css"})}
    [] OTHER -> {}

\* The globs of each watch rule.
WatchGlobs(r) ==
  CASE r = "watch/pug" ->
         {Glob("", TRUE, "*", {"pug"}), Glob("", TRUE, "*", {"md"})}
    [] r = "watch/js" -> {Glob("", TRUE, "*", {"js"})}
    [] r = "watch/css" -> {Glob("", TRUE, "*", {"css"})}
    [] r = "watch/images" -> {Glob("images", TRUE, "*", {"*"})}
    [] OTHER -> {}

\* The directory under ./build a task's gulp.dest writes to.
Dest(t) ==
  CASE t = "copy:fonts" -> "fonts"
    [] t = "copy:images" -> "images"
    [] t = "copy:vendor" -> "vendor"
    [] OTHER -> ""

\* The file under ./build a task writes for a file of its globs.
OutPathShared(t, p) ==
  CASE t = "html" -> Path(p.dir, p.base, "html")
    [] t = "styles" -> Path("", "index", "html")
    [] t = "copy:root" -> Path("", p.base, p.ext)
    [] OTHER -> Path(Dest(t), p.base, p.ext)
OutPath(t, p) ==
  CASE t = "html" -> Path(p.dir, p.base, "html")
    [] t = "styles" -> Path("", p.base, p.ext)
    [] t = "copy:root" -> Path("", p.base, p.ext)
    [] OTHER -> Path(Dest(t), p.base, p.ext)

Matched(globs, tree) == {p \in tree : \E g \in globs : GlobMatch(g, p)}

\* The root every gulp.dest of the file names, and the root of clean's glob.
DestRootOfHtmlSrc(t) == IF t = "html" THEN "src" ELSE "build"
DestRoot(t) == "build"
CleanRoot == "build"

\* The files a task writes for a file p of its globs, options.env being e:
\* html renders p with the options, styles adds the source map, the copy
\* tasks write p as it is.
OutFiles(t, p, e) ==
  LET out(path, env) ==
        [root |-> DestRoot(t), path |-> path, from |-> p, env |-> env]
  IN  CASE t = "html" -> {out(OutPath(t, p), e)}
        [] t = "styles" ->
             {out(OutPath(t, p), ""), out(Path("", p.base, "css.map"), "")}
        [] OTHER -> {out(OutPath(t, p), "")}

\* What a task has written when it ends for the files fs of its globs.
Outputs(t, fs, e) == UNION {OutFiles(t, p, e) : p \in fs}

\* The files of a tree as a task run with options.env = e leaves them.
InTree(files) ==
  {[path |-> f.path, from |-> f.from, env |-> f.env] : f \in files}
Built(tree, e) ==
  InTree(UNION {Outputs(t, Matched(SrcGlobs(t), tree), e) : t \in StreamTasks})

\* del and gulp.src skip the paths whose name starts with a dot.
dot_git == Path("", ".git", "")
Hidden(p) == p.base = ".git"

\* ./build as an earlier build left it, before src/images/logo.png was added
\* and after a page was removed from src/; `make release` keeps a repository
\* in it.
PriorTree ==
  Built(SourceTree \ {logo_png}, "development") \cup
    {[path |-> Path("", "old", "html"), from |-> Path("", "old", "pug"),
      env |-> "development"],
     [path |-> dot_git, from |-> dot_git, env |-> ""]}

\* A glob without wildcards: gulp.src fails when it matches no file.
Singular(g) == ~g.deep /\ g.base # "*" /\ "*" \notin g.exts

\* The task functions under a node.
TasksUnder(n) == Reach(n) \cap FnTasks

\* The tasks a series at or under n orders: <<a, b>> when a is under an
\* earlier function of the series than b.
RECURSIVE DependsOn(_)
DependsOn(n) ==
  LET kids == Registry[n].kids
      ordered == {ij \in (1..Len(kids)) \X (1..Len(kids)) : ij[1] < ij[2]}
  IN  UNION {DependsOn(k) : k \in KidSet(n)} \cup
      IF Registry[n].op = "series"
        THEN UNION {TasksUnder(kids[ij[1]]) \X TasksUnder(kids[ij[2]]) :
                      ij \in ordered}
        ELSE {}

(***************************************************************************)
(* The state.                                                              *)
(***************************************************************************)
VARIABLES
  cmd,        \* the task the process was asked to run
  env,        \* options.env
  srcTree,    \* the files under src/
  buildTree,  \* the files under ./build, each with what it was made from
  nst,        \* per run, each node's state
  result,     \* what the requested task's callback was called with
  alive,      \* the process is running
  exitCode,   \* its exit code once it is not
  serving,    \* browserSync was initialised
  watching,   \* the watch rules whose watcher is registered
  running,    \* per rule, glob-watcher's `running`
  queued,     \* per rule, glob-watcher's `queued`
  reloads,    \* per run, the reload notifications of its current run
  inflight,   \* per rule, callback invocations that have not completed
  evDuring,   \* per rule, change events received during the current run
  firstFailed, \* the first task function of the main run that failed
  history,    \* ./build and the exit code at the exit of each process
  pipe,       \* per file of a task run on its own, how far its pipeline took it
  gulpfile,   \* the gulp.task calls of the gulpfile and the watch rules
  loadAt,     \* how many of the gulp.task calls have been made
  registry,   \* the names gulp.task has registered
  loadError   \* the gulp.task call that threw, if one did

vars ==
  <<cmd, env, srcTree, buildTree, nst, result, alive, exitCode, serving,
    watching, running, queued, reloads, inflight, evDuring, firstFailed,
    history, pipe, gulpfile, loadAt, registry, loadError>>

Runs == {"main"} \cup Rules
RootOf(run) == IF run = "main" THEN cmd ELSE run
\* The nodes a run can invoke, none of them invoked yet.
Scope(run) == IF run = "main" THEN Nodes \ Rules ELSE Reach(run)
Idle(run) == [n \in Scope(run) |-> "idle"]
Pending == [done |-> FALSE, err |-> ""]

(***************************************************************************)
(* series and parallel.                                                    *)
(***************************************************************************)
RECURSIVE StartNode(_, _)
RECURSIVE StartAll(_, _, _)

\* parallel invokes every function it was given.
StartParallel(s, kids) == StartAll(s, kids, 1)

\* series invokes the first function it was given.
StartSeriesAll(s, kids) == StartAll(s, kids, 1)
StartSeries(s, kids) == StartNode(s, kids[1])

StartNode(s, n) ==
  LET d == Registry[n]
      s1 == [s EXCEPT ![n] = "running"]
  IN  CASE d.op = "parallel" -> StartParallel(s1, d.kids)
        [] d.op = "series" -> StartSeries(s1, d.kids)
        [] OTHER -> s1

StartAll(s, kids, i) ==
  IF i > Len(kids) THEN s ELSE StartAll(StartNode(s, kids[i]), kids, i + 1)

\* parallel calls back without error once every function has succeeded.
ParallelComplete(s, kids) == \A i \in 1..Len(kids) : s[kids[i]] = "ok"

\* A composition's callback runs once: a later completion finds it settled.
Settled(s, p) == s[p] # "running"

\* parallel calls back on the first error, or once every function succeeded.
ParallelWaits(s, kids, err) ==
  \A i \in 1..Len(kids) : s[kids[i]] \in {"ok", "failed"}
ParallelCallsBack(s, kids, err) == err \/ ParallelComplete(s, kids)

\* series calls back on an error, or once its last function has succeeded.
SeriesIgnoresError(kids, n, err) == IndexOf(kids, n) = Len(kids)
SeriesStops(kids, n, err) == err \/ IndexOf(kids, n) = Len(kids)

RECURSIVE Done(_, _, _, _)
\* Node n of the run rooted at root completed, with an error or without.
Done(s, root, n, err) ==
  LET s1 == [s EXCEPT ![n] = IF err THEN "failed" ELSE "ok"]
  IN  IF n = root THEN s1
      ELSE
        LET p == Parent(root, n)
            d == Registry[p]
        IN  IF Settled(s1, p) THEN s1
            ELSE IF d.op = "parallel"
              THEN IF ParallelCallsBack(s1, d.kids, err)
                     THEN Done(s1, root, p, err)
                     ELSE s1
            ELSE IF SeriesStops(d.kids, n, err)
              THEN Done(s1, root, p, err)
            ELSE StartNode(s1, d.kids[IndexOf(d.kids, n) + 1])

(***************************************************************************)
(* The task functions.                                                     *)
(***************************************************************************)
\* gulp.src fails on a glob without wildcards that matches no file.
CanSucceed(t) ==
  \A g \in SrcGlobs(t) : Singular(g) => Matched({g}, srcTree) # {}

\* The files a task may have taken through its pipeline when it ends: all
\* that its globs match when it ends without error, not all when it fails.
Processed(t, ok) ==
  LET m == Matched(SrcGlobs(t), srcTree)
  IN  IF ok THEN {m} ELSE {fs \in SUBSET m : fs # m \/ m = {}}

\* gulp.dest creates or overwrites the files under their root.
Write(files) ==
  LET under(root) == InTree({f \in files : f.root = root})
      paths(fs) == {f.path : f \in fs}
  IN  /\ buildTree' =
           {f \in buildTree : f.path \notin paths(under("build"))} \cup
             under("build")
      /\ srcTree' = srcTree \cup paths(under("src"))

\* del(['./build/**/*']) removes every path of the root that is not hidden.
Del(root, ok) ==
  /\ buildTree' =
       IF ok /\ root = "build"
         THEN {f \in buildTree : Hidden(f.path)} ELSE buildTree
  /\ srcTree' =
       IF ok /\ root = "src"
         THEN {q \in srcTree : Hidden(q)} ELSE srcTree

\* The effect of a task function on the file system when it ends.
Effect(t, fs, ok) ==
  IF t = "clean" THEN Del(CleanRoot, ok) ELSE Write(Outputs(t, fs, env))

\* Every pipeline ends in reload({stream: true}).
ReloadScopeByTask(t) == IF t = "styles" THEN "stream" ELSE "full"
ReloadScope(t) == "stream"

\* The notifications a task's pipeline emits: one per file that reaches its end.
Notified(t) ==
  IF t \in StreamTasks /\ Matched(SrcGlobs(t), srcTree) # {}
    THEN {[task |-> t, scope |-> ReloadScope(t)]}
    ELSE {}

\* serve initialises browserSync and never signals completion.
ServeBody(s) == serving' = (serving \/ s["serve"] = "running")

\* series and parallel look every name up when they are called, and throw
\* on one that gulp.task has not registered.
DefinedLazily(refs) == TRUE
Defined(refs) == refs \subseteq registry

\* The rules whose gulp.watch call the watch task reaches: a gulp.series that
\* throws ends the body.
Registered ==
  {RuleOrder[j] :
     j \in {i \in 1..Len(RuleOrder) :
              \A k \in 1..i : Defined(gulpfile.rules[RuleOrder[k]])}}

\* watch registers the four watchers and never signals completion.
WatchBody(s) ==
  watching' = IF s["watch"] = "running" THEN Registered ELSE watching

\* The callback the requested task is run with.
Callback(s, t) ==
  IF result.done THEN result
  ELSE IF s[cmd] = "ok" THEN [done |-> TRUE, err |-> ""]
  ELSE IF s[cmd] = "failed" THEN [done |-> TRUE, err |-> t]
  ELSE result

\* A process that has run no task yet.
NoTaskRun ==
  /\ env = "development"
  /\ nst = [run \in Runs |-> Idle(run)]
  /\ result = Pending
  /\ alive = TRUE
  /\ exitCode = 0
  /\ serving = FALSE
  /\ watching = {}
  /\ running = [r \in Rules |-> FALSE]
  /\ queued = [r \in Rules |-> FALSE]
  /\ reloads = [run \in Runs |-> {}]
  /\ inflight = [r \in Rules |-> 0]
  /\ evDuring = [r \in Rules |-> 0]
  /\ firstFailed = ""
  /\ history = <<>>
  /\ pipe = [f \in SourceTree |-> [at |-> 0, err |-> FALSE]]

\* A process that has loaded the gulpfile and run no task yet.
Fresh ==
  /\ NoTaskRun
  /\ gulpfile = Gulpfile
  /\ loadAt = Len(Order)
  /\ registry = TaskNames
  /\ loadError = ""

Init ==
  /\ cmd \in Commands
  /\ srcTree = SourceTree
  /\ buildTree = PriorTree
  /\ Fresh

ruleVars == <<running, queued, inflight, evDuring>>
loadVars == <<gulpfile, loadAt, registry, loadError>>

\* The state of a node in a run; a node the run cannot invoke is idle.
State(run, n) == IF n \in DOMAIN nst[run] THEN nst[run][n] ELSE "idle"

\* The process runs the requested task.
Loaded == loadError = "" /\ loadAt = Len(gulpfile.tasks)

\* The next gulp.task call of the gulpfile: it registers the name, unless
\* the series or parallel it is given throws, which ends the process.
LoadTask ==
  /\ alive
  /\ loadError = ""
  /\ loadAt < Len(gulpfile.tasks)
  /\ LET d == gulpfile.tasks[loadAt + 1]
     IN  IF Defined(d.refs)
           THEN /\ registry' = registry \cup {d.name}
                /\ loadAt' = loadAt + 1
                /\ UNCHANGED <<loadError, alive, exitCode, history>>
           ELSE /\ loadError' = d.name
                /\ alive' = FALSE
                /\ exitCode' = 1
                /\ history' = Append(history, [tree |-> buildTree, code |-> 1])
                /\ UNCHANGED <<registry, loadAt>>
  /\ UNCHANGED <<cmd, gulpfile, env, srcTree, buildTree, nst, result,
                 serving, watching, reloads, firstFailed, pipe, ruleVars>>

RunCommand ==
  /\ alive
  /\ Loaded
  /\ nst["main"][cmd] = "idle"
  /\ LET s == StartNode(Idle("main"), cmd)
     IN  /\ nst' = [nst EXCEPT !["main"] = s]
         /\ ServeBody(s)
         /\ WatchBody(s)
  /\ UNCHANGED <<cmd, loadVars, pipe, history, env, srcTree, buildTree,
                 result, alive, exitCode, reloads, firstFailed, ruleVars>>

\* The task functions that signal completion: the six pipelines return their
\* stream and clean returns del's promise; serve and watch take no callback
\* and return nothing.
SignalsAlways(t) == TRUE
Signals(t) == t \in StreamTasks \cup {"clean"}

\* A task function of the requested task's run ends: its stream ends or
\* errors, its promise resolves or rejects.
TaskEnds(t, ok) ==
  /\ alive
  /\ Signals(t)
  /\ nst["main"][t] = "running"
  /\ ok => CanSucceed(t)
  /\ LET s == Done(nst["main"], cmd, t, ~ok)
     IN  /\ nst' = [nst EXCEPT !["main"] = s]
         /\ result' = Callback(s, t)
         /\ ServeBody(s)
         /\ WatchBody(s)
  /\ reloads' =
       [reloads EXCEPT !["main"] = IF ok THEN @ \cup Notified(t) ELSE @]
  /\ firstFailed' = IF ~ok /\ firstFailed = "" THEN t ELSE firstFailed
  /\ \E fs \in Processed(t, ok) : Effect(t, fs, ok)
  /\ UNCHANGED <<cmd, loadVars, pipe, history, env, alive, exitCode,
                 ruleVars>>

\* build:prod's first function: function(cb) { options.env = ...; cb(); }
SetEnv ==
  /\ alive
  /\ nst["main"]["build:prod/env"] = "running"
  /\ env' = "production"
  /\ LET s == Done(nst["main"], cmd, "build:prod/env", FALSE)
     IN  /\ nst' = [nst EXCEPT !["main"] = s]
         /\ result' = Callback(s, "build:prod/env")
         /\ ServeBody(s)
         /\ WatchBody(s)
  /\ UNCHANGED <<cmd, loadVars, pipe, history, srcTree, buildTree, alive,
                 exitCode, reloads, firstFailed, ruleVars>>

\* A gulp.series in the body of watch throws on a name that is not
\* registered: the watch task ends with the error.
WatchThrows ==
  /\ alive
  /\ nst["main"]["watch"] = "running"
  /\ Registered # Rules
  /\ LET s == Done(nst["main"], cmd, "watch", TRUE)
     IN  /\ nst' = [nst EXCEPT !["main"] = s]
         /\ result' = Callback(s, "watch")
  /\ firstFailed' = IF firstFailed = "" THEN "watch" ELSE firstFailed
  /\ UNCHANGED <<cmd, loadVars, pipe, history, env, srcTree, buildTree, alive,
                 exitCode, serving, watching, reloads, ruleVars>>

\* The one-shot process ends once the requested task has called back: with
\* code 1 on an error, ending whatever still runs, with code 0 otherwise.
ProcessExit ==
  /\ alive
  /\ result.done
  /\ alive' = FALSE
  /\ exitCode' = IF result.err # "" THEN 1 ELSE 0
  /\ history' = Append(history, [tree |-> buildTree, code |-> exitCode'])
  /\ nst' = [nst EXCEPT !["main"] =
               [n \in DOMAIN @ |->
                  IF @[n] = "running" THEN "killed" ELSE @[n]]]
  /\ UNCHANGED <<cmd, loadVars, pipe, env, srcTree, buildTree, result,
                 serving, watching, reloads, firstFailed, ruleVars>>

\* The command is run again, in a new process, once the process before it
\* has ended with code 0.
RunAgain ==
  /\ ~alive
  /\ exitCode = 0
  /\ Len(history) < MaxRuns
  /\ alive' = TRUE
  /\ env' = "development"
  /\ nst' = [nst EXCEPT !["main"] = Idle("main")]
  /\ result' = Pending
  /\ reloads' = [reloads EXCEPT !["main"] = {}]
  /\ firstFailed' = ""
  /\ UNCHANGED <<cmd, loadVars, pipe, history, srcTree, buildTree, exitCode,
                 serving, watching, ruleVars>>

(***************************************************************************)
(* The watch rules.                                                        *)
(***************************************************************************)
\* A rule's callback is due on the next tick, which runs before any event
\* of the file system or of a stream is handled.
TickDue(r) == running[r] /\ nst[r][r] # "running"
NoTick == \A r \in Rules : ~TickDue(r)

\* The rules whose globs match a path.
Hit(p) == {r \in watching : Matched(WatchGlobs(r), {p}) # {}}

\* onChange: `if (running) { if (opt.queue) queued = true; return; }`
NeverQueues(r) == FALSE
Queues(r) == running[r]

\* onChange: otherwise `running = true; asyncDone(cb, runComplete);`
AlwaysStarts(r) == TRUE
Starts(r) == ~running[r]

\* The watchers' handler for the rules a changed path matches.
OnChange(hit) ==
  /\ running' = [r \in Rules |-> running[r] \/ (r \in hit /\ Starts(r))]
  /\ queued' = [r \in Rules |-> queued[r] \/ (r \in hit /\ Queues(r))]
  /\ inflight' =
       [r \in Rules |->
          IF r \in hit /\ Starts(r) THEN inflight[r] + 1 ELSE inflight[r]]
  /\ evDuring' =
       [r \in Rules |->
          IF r \in hit /\ running[r] THEN evDuring[r] + 1 ELSE evDuring[r]]

\* runComplete(err): `running = false; if (queued) { queued = false;
\* onChange(); }`; the error goes to the watcher's error listeners, of which
\* the rules have none.
RunCompleteDisables(r, err) ==
  /\ watching' = IF err THEN watching \ {r} ELSE watching
  /\ running' = [running EXCEPT ![r] = queued[r]]
  /\ queued' = [queued EXCEPT ![r] = FALSE]
  /\ inflight' =
       [inflight EXCEPT ![r] = IF queued[r] THEN @ ELSE @ - 1]
  /\ evDuring' = [evDuring EXCEPT ![r] = 0]
RunComplete(r, err) ==
  /\ watching' = watching
  /\ running' = [running EXCEPT ![r] = queued[r]]
  /\ queued' = [queued EXCEPT ![r] = FALSE]
  /\ inflight' =
       [inflight EXCEPT ![r] = IF queued[r] THEN @ ELSE @ - 1]
  /\ evDuring' = [evDuring EXCEPT ![r] = 0]

\* A file under src/ is added, changed or removed while watchers exist.
FsEvent(p, kind) ==
  /\ alive
  /\ Hit(p) # {}
  /\ \A r \in Hit(p) : running[r] => evDuring[r] < MaxEventsDuringRun
  /\ NoTick
  /\ CASE kind = "add" -> p \notin srcTree /\ srcTree' = srcTree \cup {p}
       [] kind = "unlink" ->
            p \in srcTree \cap Removable /\ srcTree' = srcTree \ {p}
       [] OTHER -> p \in srcTree /\ UNCHANGED srcTree
  /\ OnChange(Hit(p))
  /\ UNCHANGED <<cmd, loadVars, pipe, history, env, buildTree, nst, result,
                 alive, exitCode, serving, watching, reloads, firstFailed>>

\* asyncDone runs a rule's callback on the next tick.
StartRun(r) ==
  /\ alive
  /\ TickDue(r)
  /\ nst' = [nst EXCEPT ![r] = StartNode(Idle(r), r)]
  /\ reloads' = [reloads EXCEPT ![r] = {}]
  /\ UNCHANGED <<cmd, loadVars, pipe, history, env, srcTree, buildTree,
                 result, alive, exitCode, serving, watching, firstFailed,
                 ruleVars>>

\* A task function of a rule's run ends.
RuleTaskEnds(r, t, ok) ==
  /\ alive
  /\ NoTick
  /\ Signals(t)
  /\ State(r, t) = "running"
  /\ ok => CanSucceed(t)
  /\ LET s == Done(nst[r], r, t, ~ok)
     IN  /\ nst' = [nst EXCEPT ![r] = s]
         /\ IF s[r] # "running"
              THEN RunComplete(r, s[r] = "failed")
              ELSE UNCHANGED <<watching, ruleVars>>
  /\ reloads' = [reloads EXCEPT ![r] = IF ok THEN @ \cup Notified(t) ELSE @]
  /\ \E fs \in Processed(t, ok) : Effect(t, fs, ok)
  /\ UNCHANGED <<cmd, loadVars, pipe, history, env, result, alive, exitCode,
                 serving, firstFailed>>

(***************************************************************************)
(* A task run on its own, file by file through its pipeline.               *)
(***************************************************************************)
\* The streams a file passes, in the order of the task's .pipe calls.
StagesReloadFirst(t) ==
  CASE t = "html" -> <<"src", "pug", "useref", "reload", "dest">>
    [] t = "styles" ->
         <<"src", "sourcemaps.init", "postcss", "sourcemaps.write", "reload",
           "dest">>
    [] OTHER -> <<"src", "reload", "dest">>
Stages(t) ==
  CASE t = "html" -> <<"src", "pug", "useref", "dest", "reload">>
    [] t = "styles" ->
         <<"src", "sourcemaps.init", "postcss", "sourcemaps.write", "dest",
           "reload">>
    [] OTHER -> <<"src", "dest", "reload">>

\* The files gulp.src emits for the task.
Emitted == Matched(SrcGlobs(cmd), srcTree)
\* The stream a file passes next.
NextStage(f) == Stages(cmd)[pipe[f].at + 1]
InPipe(f) ==
  /\ f \in Emitted
  /\ ~pipe[f].err
  /\ pipe[f].at < Len(Stages(cmd))

\* A file passes the next stream of the pipeline: gulp.dest writes it,
\* reload notifies the browsers of it.
PipeStep(f) ==
  /\ alive
  /\ cmd \in StreamTasks
  /\ nst["main"][cmd] # "idle"
  /\ InPipe(f)
  /\ pipe' = [pipe EXCEPT ![f].at = @ + 1]
  /\ IF NextStage(f) = "dest"
       THEN Write(OutFiles(cmd, f, env))
       ELSE UNCHANGED <<srcTree, buildTree>>
  /\ reloads' =
       [reloads EXCEPT !["main"] =
          IF NextStage(f) = "reload"
            THEN @ \cup {[task |-> cmd, scope |-> ReloadScope(cmd)]}
            ELSE @]
  /\ UNCHANGED <<cmd, loadVars, env, nst, result, alive, exitCode, serving,
                 watching, firstFailed, history, ruleVars>>

\* The task ends, with an error or without one.
PipeDone(err) ==
  IF nst["main"][cmd] = "running"
    THEN LET s == Done(nst["main"], cmd, cmd, err)
         IN  /\ nst' = [nst EXCEPT !["main"] = s]
             /\ result' = Callback(s, cmd)
             /\ firstFailed' = IF err THEN cmd ELSE firstFailed
    ELSE UNCHANGED <<nst, result, firstFailed>>

\* A stream other than reload fails on a file: the file goes no further and
\* the task ends with the error.
PipeFail(f) ==
  /\ alive
  /\ cmd \in StreamTasks
  /\ nst["main"][cmd] # "idle"
  /\ InPipe(f)
  /\ NextStage(f) # "reload"
  /\ pipe' = [pipe EXCEPT ![f].err = TRUE]
  /\ PipeDone(TRUE)
  /\ UNCHANGED <<cmd, loadVars, env, srcTree, buildTree, alive, exitCode,
                 serving, watching, reloads, history, ruleVars>>

\* gulp.src fails on a glob without wildcards that matches no file.
PipeSrcFails ==
  /\ alive
  /\ cmd \in StreamTasks
  /\ nst["main"][cmd] = "running"
  /\ ~CanSucceed(cmd)
  /\ PipeDone(TRUE)
  /\ UNCHANGED <<cmd, loadVars, env, srcTree, buildTree, alive, exitCode,
                 serving, watching, reloads, history, pipe, ruleVars>>

\* Every file has left the last stream: the pipeline ends.
PipeEnd ==
  /\ alive
  /\ cmd \in StreamTasks
  /\ nst["main"][cmd] = "running"
  /\ CanSucceed(cmd)
  /\ \A f \in Emitted : pipe[f].at = Len(Stages(cmd))
  /\ PipeDone(FALSE)
  /\ UNCHANGED <<cmd, loadVars, env, srcTree, buildTree, alive, exitCode,
                 serving, watching, reloads, history, pipe, ruleVars>>

Next ==
  \/ RunCommand
  \/ \E t \in FnTasks, ok \in BOOLEAN : TaskEnds(t, ok)
  \/ SetEnv
  \/ ProcessExit
  \/ \E p \in SourceTree, kind \in {"add", "change", "unlink"} :
       FsEvent(p, kind)
  \/ \E r \in Rules : StartRun(r)
  \/ \E r \in Rules, t \in FnTasks, ok \in BOOLEAN : RuleTaskEnds(r, t, ok)

Spec == Init /\ [][Next]_vars

\* ./build before the first build: empty, as an earlier build left it, or
\* as an earlier build:prod left it.
InitTrees ==
  {{}, PriorTree,
   Built(SourceTree, "production") \cup
     {[path |-> dot_git, from |-> dot_git, env |-> ""]}}

\* build or build:prod run MaxRuns times on the same sources, every task
\* ending without error.
BuildInit ==
  /\ cmd \in {"build", "build:prod"}
  /\ srcTree = SourceTree
  /\ buildTree \in InitTrees
  /\ Fresh

BuildNext ==
  \/ RunCommand
  \/ \E t \in FnTasks : TaskEnds(t, TRUE)
  \/ SetEnv
  \/ ProcessExit
  \/ RunAgain

BuildSpec == BuildInit /\ [][BuildNext]_vars

\* One of the six pipelines run on its own: gulp html, gulp styles, ...
PipeInit ==
  /\ cmd \in StreamTasks
  /\ srcTree \in {SourceTree, SourceTree \ {main_css}}
  /\ buildTree \in {{}, PriorTree}
  /\ Fresh

PipeNext ==
  \/ RunCommand
  \/ \E f \in SourceTree : PipeStep(f)
  \/ \E f \in SourceTree : PipeFail(f)
  \/ PipeSrcFails
  \/ PipeEnd
  \/ ProcessExit

PipeSpec == PipeInit /\ [][PipeNext]_vars

\* The gulpfile with one more name handed to the series or parallel of a
\* task, or to the series of a watch rule.
WithTaskRef(i, x) ==
  [Gulpfile EXCEPT !.tasks[i].refs = @ \cup {x}]
WithRuleRef(r, x) == [Gulpfile EXCEPT !.rules[r] = @ \cup {x}]

\* The gulpfile as it is, and as it would be with a name that no gulp.task
\* registers, or with a name registered at or after the place of the
\* reference, which a cycle of references has to contain.
Gulpfiles ==
  {Gulpfile} \cup
  {WithTaskRef(ix[1], ix[2]) :
     ix \in {jy \in (1..Len(Order)) \X
                      {"nonexistent", "copy", "build", "default"} :
               /\ Gulpfile.tasks[jy[1]].refs # {}
               /\ \A k \in 1..(jy[1] - 1) : Order[k] # jy[2]}} \cup
  {WithRuleRef(r, "nonexistent") : r \in Rules}

\* A process from the start of the gulpfile to the end of the task it runs.
LoadInit ==
  /\ cmd \in {"build", "default"}
  /\ srcTree = SourceTree
  /\ buildTree = PriorTree
  /\ NoTaskRun
  /\ gulpfile \in Gulpfiles
  /\ loadAt = 0
  /\ registry = {}
  /\ loadError = ""

LoadNext ==
  \/ LoadTask
  \/ RunCommand
  \/ \E t \in FnTasks, ok \in BOOLEAN : TaskEnds(t, ok)
  \/ WatchThrows
  \/ ProcessExit

LoadSpec == LoadInit /\ [][LoadNext]_vars

(***************************************************************************)
(* The properties.                                                         *)
(***************************************************************************)
BuildCommands == {"build", "build:prod", "default"}
BuildTasks ==
  {"styles", "html", "copy:images", "copy:root", "copy:vendor", "copy:fonts"}
Started == {t \in FnTasks : nst["main"][t] # "idle"}

\* C1: in every run of build, also through build:prod or default, clean has
\* completed before any other task reachable from build starts.
CleanPrecedesBuild ==
  cmd \in BuildCommands =>
    \A t \in BuildTasks :
      nst["main"][t] # "idle" => nst["main"]["clean"] = "ok"

CleanPrecedesBuildWitness ==
  /\ cmd = "build:prod"
  /\ nst["main"]["clean"] = "ok"
  /\ nst["main"]["html"] = "running"
  /\ nst["main"]["copy:fonts"] = "ok"

\* C2: a build run has exactly two ready sets, {clean} and then the six
\* transform and copy tasks: nothing but clean is started until clean has
\* completed, and once it has, all six are started, none waiting for another.
BuildReadySets ==
  cmd = "build" =>
    /\ Started \in {{}, {"clean"}, {"clean"} \cup BuildTasks}
    /\ nst["main"]["clean"] = "ok" => Started = {"clean"} \cup BuildTasks

BuildReadySetsWitness ==
  /\ cmd = "build"
  /\ \A t \in BuildTasks : nst["main"][t] = "running"

\* C3: whatever task is requested, no task function starts before every
\* task function a series orders before it has completed.
TopologicalOrder ==
  \A ab \in DependsOn(cmd) :
    nst["main"][ab[2]] # "idle" => nst["main"][ab[1]] = "ok"

TopologicalOrderWitness ==
  /\ cmd = "default"
  /\ nst["main"]["watch"] = "running"
  /\ <<"copy:vendor", "watch">> \in DependsOn(cmd)

\* C4: at most one run of a watch rule is in progress; a change event that
\* arrives during it starts no second run: it is queued, the run in progress
\* is left as it is, and a run of the rule starts only when none is going.
SingleFlightInv ==
  \A r \in Rules :
    /\ inflight[r] <= 1
    /\ queued[r] => running[r] /\ inflight[r] = 1
SingleFlightStep ==
  \A r \in Rules :
    /\ evDuring'[r] > evDuring[r] =>
         nst'[r] = nst[r] /\ inflight'[r] = inflight[r] /\ queued'[r]
    /\ nst[r][r] # "running" /\ nst'[r][r] = "running" =>
         \A t \in FnTasks : State(r, t) # "running"
SingleFlight == []SingleFlightInv /\ [][SingleFlightStep]_vars

SingleFlightWitness ==
  /\ nst["watch/images"]["html"] = "running"
  /\ queued["watch/images"]
  /\ inflight["watch/images"] = 1

\* C5: the change events of a rule that arrive during its run, two or more
\* of them too, leave one rerun queued: when the run ends exactly one run
\* is started and nothing stays queued, and a run that ends with no event
\* received starts none.
OneQueuedRerunInv ==
  \A r \in Rules : evDuring[r] > 0 => queued[r] /\ running[r]
OneQueuedRerunStep ==
  \A r \in Rules :
    /\ evDuring[r] >= 2 /\ evDuring'[r] = 0 =>
         running'[r] /\ ~queued'[r] /\ inflight'[r] = 1 /\ TickDue(r)'
    /\ evDuring[r] = 0 /\ nst[r][r] = "running" /\ nst'[r][r] # "running" =>
         ~running'[r] /\ ~queued'[r] /\ inflight'[r] = 0
OneQueuedRerun == []OneQueuedRerunInv /\ [][OneQueuedRerunStep]_vars

OneQueuedRerunWitness ==
  /\ evDuring["watch/css"] = 2
  /\ queued["watch/css"]
  /\ nst["watch/css"]["styles"] = "running"

\* The files under ./build the running tasks of a run are writing.
Writing(run) ==
  UNION {{OutPath(t, p) : p \in Matched(SrcGlobs(t), srcTree)} :
           t \in {u \in StreamTasks : State(run, u) = "running"}}

\* C6: no file under ./build is being written by two runs at a time.
DisjointWriters ==
  \A r1, r2 \in Runs : r1 # r2 => Writing(r1) \cap Writing(r2) = {}

ExitReportsFirstFailure ==
  cmd \in {"build", "build:prod"} =>
    LET allOk == \A t \in TasksUnder(cmd) : nst["main"][t] = "ok"
    IN  /\ allOk => result = [done |-> TRUE, err |-> ""]
        /\ result.done /\ result.err = "" => allOk
        /\ result.done /\ result.err # "" => result.err = firstFailed
        /\ ~alive => result.done /\ (exitCode = 0 <=> allOk)
        /\ ~alive /\ exitCode # 0 => result.err = firstFailed

ExitReportsFirstFailureWitness ==
  /\ cmd = "build"
  /\ ~alive
  /\ exitCode = 1
  /\ result.err = "styles"
  /\ nst["main"]["html"] = "failed"
  /\ nst["main"]["copy:root"] = "ok"

\* C9: a task failure in watch mode ends only the run it occurred in: every
\* rule stays registered, the other runs and the process go on, and the next
\* change event that matches the rule starts a run of it.
WatchSurvivesFailureInv ==
  nst["main"]["watch"] = "running" => watching = Rules /\ alive
WatchSurvivesFailureStep ==
  /\ \A r \in Rules :
       nst[r][r] = "running" /\ nst'[r][r] = "failed" =>
         /\ \A q \in Runs \ {r} : nst'[q] = nst[q]
         /\ \A q \in Rules \ {r} : running'[q] = running[q]
  /\ \A r \in Rules :
       nst[r][r] = "failed" /\ ~running[r] =>
         \A p \in SourceTree, kind \in {"add", "change", "unlink"} :
           r \in Hit(p) /\ FsEvent(p, kind) =>
             running'[r] /\ inflight'[r] = 1 /\ TickDue(r)'
WatchSurvivesFailure ==
  []WatchSurvivesFailureInv /\ [][WatchSurvivesFailureStep]_vars

WatchSurvivesFailureWitness ==
  /\ nst["watch/images"]["copy:images"] = "failed"
  /\ nst["watch/images"]["watch/images"] = "failed"
  /\ TickDue("watch/images")
  /\ evDuring["watch/images"] = 0
  /\ nst["watch/pug"]["html"] = "running"

\* C10, as amended: every reload notification has the scope "stream",
\* whatever changed; a task of a watch run that ends without error and had
\* files to process has emitted one.
ReloadAlwaysStreamInv ==
  \A run \in Runs :
    \A n \in reloads[run] : n.scope = "stream" /\ nst[run][n.task] = "ok"
ReloadAlwaysStreamStep ==
  \A r \in Rules, t \in StreamTasks :
    /\ State(r, t) = "running"
    /\ State(r, t)' = "ok"
    /\ Matched(SrcGlobs(t), srcTree) # {}
    => [task |-> t, scope |-> "stream"] \in reloads'[r]
ReloadAlwaysStream ==
  []ReloadAlwaysStreamInv /\ [][ReloadAlwaysStreamStep]_vars

ReloadAlwaysStreamWitness ==
  /\ nst["watch/images"]["watch/images"] = "ok"
  /\ reloads["watch/images"] =
       {[task |-> "copy:images", scope |-> "stream"],
        [task |-> "html", scope |-> "stream"]}
  /\ nst["watch/css"]["watch/css"] = "ok"
  /\ reloads["watch/css"] = {[task |-> "styles", scope |-> "stream"]}

\* C10: the reload notifications of the watch runs that ended without error
\* differ in scope between a change of content and a change of styles.
ReloadScopedByChange ==
  \A r1, r2 \in Rules :
    nst[r1][r1] = "ok" /\ nst[r2][r2] = "ok" =>
      \A n1 \in reloads[r1], n2 \in reloads[r2] :
        n1.task = "html" /\ n2.task = "styles" => n1.scope # n2.scope

PathsOf(tree) == {f.path : f \in tree}
Ended(run, t) ==
  State(run, t) = "running" /\ State(run, t)' \in {"ok", "failed"}

\* C11: no step of a task run changes the source tree; a step in which clean
\* ends only removes files of ./build, and a step in which another task ends
\* removes none: what it adds or replaces there is output of the pipelines.
SideEffectsConfined ==
  [][nst' # nst =>
       /\ srcTree' = srcTree
       /\ IF Ended("main", "clean")
            THEN buildTree' \subseteq buildTree
            ELSE /\ PathsOf(buildTree) \subseteq PathsOf(buildTree')
                 /\ buildTree' \ buildTree \subseteq Built(srcTree, env)]_vars

SideEffectsConfinedWitness ==
  /\ cmd = "build"
  /\ nst["main"]["clean"] = "ok"
  /\ nst["main"]["html"] = "ok"
  /\ nst["main"]["copy:images"] = "ok"
  /\ Path("", "old", "html") \notin PathsOf(buildTree)
  /\ {Path("", "index", "html"), Path("images", "logo", "png")}
       \subseteq PathsOf(buildTree)
  /\ srcTree = SourceTree

\* C12: when build, or build:prod, is run again on the same sources, ./build
\* at the end of the second run is what it was at the end of the first,
\* whatever it held before the first.
IdempotentBuild ==
  \A i, j \in 1..Len(history) :
    history[i].code = 0 /\ history[j].code = 0 =>
      history[i].tree = history[j].tree

IdempotentBuildWitness ==
  /\ Len(history) = 2
  /\ history[1].code = 0
  /\ history[2].code = 0
  /\ cmd = "build:prod"
  /\ \E f \in history[2].tree : f.env = "production"
  /\ dot_git \in PathsOf(history[2].tree)

\* The paths a task writes for the sources as they are.
Targets(t) == PathsOf(Outputs(t, Matched(SrcGlobs(t), srcTree), env))

BuildThenServeAndWatch ==
  cmd = "default" =>
    /\ nst["main"]["serve"] # "idle" \/ nst["main"]["watch"] # "idle" =>
         /\ nst["main"]["build"] = "ok"
         /\ \A t \in {"clean"} \cup BuildTasks : nst["main"][t] = "ok"
    /\ nst["main"]["serve"] = "idle" <=> nst["main"]["watch"] = "idle"
    /\ \A r \in Rules :
         r \in watching \/ running[r] \/ nst[r][r] # "idle" =>
           nst["main"]["build"] = "ok"

BuildThenServeAndWatchWitness ==
  /\ cmd = "default"
  /\ serving
  /\ nst["main"]["serve"] = "running"
  /\ nst["main"]["watch"] = "running"
  /\ watching = Rules
  /\ nst["watch/css"]["styles"] = "running"

\* C16: in a run of build:prod options.env is 'production' before clean or
\* any task of build starts and stays so, and the page html writes is
\* rendered with it; a run of build leaves options.env 'development'.
ProdEnvBeforeBuildInv ==
  /\ cmd = "build:prod" =>
       /\ \A t \in {"clean"} \cup BuildTasks :
            nst["main"][t] # "idle" => env = "production"
       /\ nst["main"]["html"] = "ok" =>
            \A f \in buildTree :
              f.path = Path("", "index", "html") => f.env = "production"
  /\ cmd = "build" => env = "development"
ProdEnvBeforeBuildStep == env = "production" => env' = "production"
ProdEnvBeforeBuild ==
  []ProdEnvBeforeBuildInv /\ [][ProdEnvBeforeBuildStep]_vars

ProdEnvBeforeBuildWitness ==
  /\ cmd = "build:prod"
  /\ nst["main"]["html"] = "ok"
  /\ nst["main"]["styles"] = "running"
  /\ [path |-> Path("", "index", "html"), from |-> index_pug,
      env |-> "production"] \in buildTree

\* The task functions a run of a rule has started.
StartedBy(r) == {t \in FnTasks : State(r, t) # "idle"}

\* C17: a run of the images rule starts html only once copy:images has ended
\* without error, and not at all when copy:images failed; a run of the rule
\* for pug and md, for js, for css starts html, html, styles and no other.
RulesRunInOrder ==
  /\ nst["watch/images"]["html"] # "idle" =>
       nst["watch/images"]["copy:images"] = "ok"
  /\ nst["watch/images"]["copy:images"] = "failed" =>
       /\ nst["watch/images"]["html"] = "idle"
       /\ nst["watch/images"]["watch/images"] = "failed"
  /\ StartedBy("watch/images") \in
       {{}, {"copy:images"}, {"copy:images", "html"}}
  /\ StartedBy("watch/pug") \in {{}, {"html"}}
  /\ StartedBy("watch/js") \in {{}, {"html"}}
  /\ StartedBy("watch/css") \in {{}, {"styles"}}
  /\ \A r \in Rules : nst[r][r] # "idle" => StartedBy(r) # {}

RulesRunInOrderWitness ==
  /\ nst["watch/images"]["copy:images"] = "ok"
  /\ nst["watch/images"]["html"] = "running"
  /\ nst["watch/css"]["styles"] = "failed"
  /\ nst["watch/js"]["html"] = "ok"

\* C20: no watch rule runs clean, and while the watchers exist no step
\* removes a path from ./build: the page and the stylesheet stay there also
\* when their source has been removed.
WatchNeverRemovesInv ==
  /\ \A r \in Rules : State(r, "clean") = "idle"
  /\ watching # {} =>
       {Path("", "index", "html"), Path("", "main", "css")}
         \subseteq PathsOf(buildTree)
WatchNeverRemovesStep ==
  watching # {} => PathsOf(buildTree) \subseteq PathsOf(buildTree')
WatchNeverRemoves ==
  []WatchNeverRemovesInv /\ [][WatchNeverRemovesStep]_vars

WatchNeverRemovesWitness ==
  /\ cmd = "watch"
  /\ index_pug \notin srcTree
  /\ nst["watch/pug"]["watch/pug"] = "ok"
  /\ nst["watch/images"]["watch/images"] = "ok"
  /\ {Path("", "index", "html"), Path("", "old", "html"),
      Path("images", "logo", "png")} \subseteq PathsOf(buildTree)

\* The file has passed the stream st of the pipeline.
Passed(f, st) == \E k \in 1..pipe[f].at : Stages(cmd)[k] = st

\* C19: in each of the six tasks the reload notification for a file is
\* emitted only once gulp.dest has written the file to ./build, and a file
\* on which a stream of the pipeline failed goes no further: no reload is
\* emitted for it.
ReloadAfterWriteInv ==
  /\ \A f \in SourceTree :
       /\ Passed(f, "reload") =>
            InTree(OutFiles(cmd, f, env)) \subseteq buildTree
       /\ pipe[f].err => ~Passed(f, "reload")
  /\ reloads["main"] # {} => \E f \in Emitted : Passed(f, "reload")
ReloadAfterWriteStep == \A f \in SourceTree : pipe[f].err => pipe'[f] = pipe[f]
ReloadAfterWrite == []ReloadAfterWriteInv /\ [][ReloadAfterWriteStep]_vars

ReloadAfterWriteWitness ==
  /\ cmd = "copy:root"
  /\ buildTree # {}
  /\ Passed(favicon_ico, "reload")
  /\ pipe[cname].err
  /\ Path("", "CNAME", "") \notin PathsOf(buildTree)
  /\ reloads["main"] = {[task |-> "copy:root", scope |-> "stream"]}

\* The names defined by the gulp.task calls before the i-th.
Before(i) == {gulpfile.tasks[j].name : j \in 1..(i - 1)}
AllNames == {gulpfile.tasks[j].name : j \in 1..Len(gulpfile.tasks)}
\* The references from task to task, and the tasks a task reaches by them.
RefEdges ==
  UNION {{<<gulpfile.tasks[j].name, x>> : x \in gulpfile.tasks[j].refs} :
           j \in 1..Len(gulpfile.tasks)}
RECURSIVE RefClosure(_, _)
RefClosure(R, n) ==
  IF n = 0 THEN R
  ELSE RefClosure(
         R \cup {<<ef[1][1], ef[2][2]>> :
                   ef \in {p \in R \X R : p[1][2] = p[2][1]}},
         n - 1)
Cyclic == \E e \in RefClosure(RefEdges, 4) : e[1] = e[2]
UnknownInTask ==
  \E j \in 1..Len(gulpfile.tasks) : ~(gulpfile.tasks[j].refs \subseteq AllNames)
UnknownInRule == \E r \in Rules : ~(gulpfile.rules[r] \subseteq AllNames)
\* A composition given to gulp.task names a task not registered before it.
RefersAhead ==
  \E j \in 1..Len(gulpfile.tasks) :
    ~(gulpfile.tasks[j].refs \subseteq Before(j))
NoTaskEverRun == \A n \in DOMAIN nst["main"] : nst["main"][n] = "idle"

GraphWellFormedInv ==
  gulpfile = Gulpfile =>
    /\ loadError = ""
    /\ ~RefersAhead /\ ~Cyclic
    /\ Loaded =>
         /\ registry = TaskNames
         /\ \A j \in 1..Len(gulpfile.tasks) :
              gulpfile.tasks[j].refs \subseteq registry
         /\ \A r \in Rules : gulpfile.rules[r] \subseteq registry
         /\ {"copy:images", "copy:root", "copy:vendor", "copy:fonts", "clean",
             "styles", "html", "copy", "build", "serve", "watch"}
              = UNION ({gulpfile.tasks[j].refs : j \in 1..Len(gulpfile.tasks)}
                       \cup {gulpfile.rules[r] : r \in Rules})
GraphWellFormedStep ==
  /\ gulpfile' = gulpfile
  /\ Loaded => registry' = registry /\ Loaded'
GraphWellFormed == []GraphWellFormedInv /\ [][GraphWellFormedStep]_vars

GraphWellFormedWitness ==
  /\ gulpfile = Gulpfile
  /\ Loaded
  /\ cmd = "default"
  /\ nst["main"]["watch"] = "running"
  /\ watching = Rules

(***************************************************************************)
(* Termination.                                                            *)
(***************************************************************************)
\* gulp-cli runs the requested task once the gulpfile is loaded, cb() of
\* build:prod's first function is called in its body, and each task
\* function that signals completion does so at some time.
Fairness ==
  /\ WF_vars(RunCommand)
  /\ WF_vars(SetEnv)
  /\ \A t \in FnTasks : WF_vars(\E ok \in BOOLEAN : TaskEnds(t, ok))

\* A run of build, of build:prod or of default.
FairInit ==
  /\ cmd \in {"build", "build:prod", "default"}
  /\ srcTree = SourceTree
  /\ buildTree = PriorTree
  /\ Fresh

FairSpec == FairInit /\ [][Next]_vars /\ Fairness

\* A build run reaches its callback, without an error or with one.
BuildCompletes == (cmd = "build") ~> result.done

\* Once its build has succeeded a default run has not called back and the
\* process has not ended; serve and watch stay running from then on.
DefaultPendingInv ==
  cmd = "default" /\ nst["main"]["build"] = "ok" =>
    /\ ~result.done
    /\ alive
    /\ nst["main"]["serve"] = "running"
    /\ nst["main"]["watch"] = "running"
    /\ nst["main"]["default"] = "running"
DefaultPendingStep ==
  cmd = "default" /\ nst["main"]["build"] = "ok" =>
    nst'["main"]["build"] = "ok"

\* C21: a build run always reaches a completion result, success or failure,
\* provided each of its task functions ends; a default run never reaches
\* completion once its build has succeeded, since serve and watch never
\* signal completion.
BuildEndsDefaultStays ==
  /\ BuildCompletes
  /\ []DefaultPendingInv
  /\ [][DefaultPendingStep]_vars

\* A default run whose build succeeded has served, watched and rerun a rule
\* after a change, and is still pending.
BuildEndsDefaultStaysWitness ==
  /\ cmd = "default"
  /\ nst["main"]["build"] = "ok"
  /\ serving
  /\ watching = Rules
  /\ nst["watch/css"]["watch/css"] = "ok"
  /\ ~result.done

=============================================================================
